---- MODULE Spec2Model ----
(***************************************************************************)
(* Model of wsjtx-adif.py: convert() reads a wsjt-x fox-mode log line by   *)
(* line, keeps the table `ongoing` of selected callsigns and writes one    *)
(* ADIF row when a selected callsign answers with an R report.             *)
(*                                                                         *)
(* Text tokens are sequences of one-character strings, so that the code's  *)
(* character tests (startswith, [1:], the locator pattern, int()) are      *)
(* computed and not assumed.  A frequency token "21.091" is the pair of    *)
(* its whole MHz and its three decimals, [mhz |-> 21, khz |-> 91].  A      *)
(* timestamp is a number of seconds of local time, or no calendar date.    *)
(***************************************************************************)
EXTENDS Integers, Sequences, FiniteSets, TLC

VARIABLES
    pc,        \* position of the program: "start", "loop", "done", "fatal", "error"
    args,      \* the parsed command line (argparse namespace)
    inf,       \* the lines the loop `for l in inf` has consumed so far, in order
    ongoing,   \* the dictionary ongoing: callsign -> [freq, loc, s_db_sent]
    stdout,    \* what has been written to sys.stdout, in order
    outfile,   \* what has been written to the file opened from args.outfile
    lookup,    \* one call of freq_to_band: its argument and, once made, its result
    first      \* the finished run that a second run is compared with (<<>>: none)

vars == <<pc, args, inf, ongoing, stdout, outfile, lookup, first>>

\* Longest input (number of lines) explored.
MaxLines == 4

(***************************************************************************)
(* Characters and tokens                                                   *)
(***************************************************************************)
Digits == {"0", "1", "2", "3", "4", "5", "6", "7", "8", "9"}
Upper == {"A", "B", "C", "D", "E", "F", "G", "H", "I", "J", "K", "L", "M",
          "N", "O", "P", "Q", "R", "S", "T", "U", "V", "W", "X", "Y", "Z"}

DigitVal(c) ==
    CASE c = "0" -> 0 [] c = "1" -> 1 [] c = "2" -> 2 [] c = "3" -> 3
      [] c = "4" -> 4 [] c = "5" -> 5 [] c = "6" -> 6 [] c = "7" -> 7
      [] c = "8" -> 8 [] c = "9" -> 9

DigitChar(d) ==
    CASE d = 0 -> "0" [] d = 1 -> "1" [] d = 2 -> "2" [] d = 3 -> "3"
      [] d = 4 -> "4" [] d = 5 -> "5" [] d = 6 -> "6" [] d = 7 -> "7"
      [] d = 8 -> "8" [] d = 9 -> "9"

\* s[1:] of Python: everything after the first character ('' stays '').
Slice1(s) == IF s = <<>> THEN <<>> ELSE Tail(s)

\* s.startswith(c) and s.endswith(c) for a one-character c.
StartsWith(s, c) == s # <<>> /\ s[1] = c
EndsWith(s, c) == s # <<>> /\ s[Len(s)] = c

\* int(d) succeeds: an optional sign and then at least one digit.
IntLiteral(d) ==
    LET body == IF StartsWith(d, "+") \/ StartsWith(d, "-") THEN Tail(d) ELSE d
    IN  body # <<>> /\ \A i \in 1..Len(body) : body[i] \in Digits

RECURSIVE DigitsValue(_)
DigitsValue(s) ==
    IF s = <<>> THEN 0 ELSE 10 * DigitsValue(SubSeq(s, 1, Len(s) - 1)) + DigitVal(s[Len(s)])

\* int(d), for d an integer literal.
IntOf(d) ==
    IF StartsWith(d, "-") THEN 0 - DigitsValue(Tail(d))
    ELSE IF StartsWith(d, "+") THEN DigitsValue(Tail(d))
    ELSE DigitsValue(d)

RECURSIVE Decimal(_)
Decimal(n) ==
    IF n < 10 THEN <<DigitChar(n)>> ELSE Decimal(n \div 10) \o <<DigitChar(n % 10)>>

\* '%02d' % n for n >= 0.
Pad2(n) == IF n < 10 THEN <<"0">> \o Decimal(n) ELSE Decimal(n)

(***************************************************************************)
(* Band table and ADIF formatting                                          *)
(***************************************************************************)
None == "None"

BAND_FREQ ==
    << [band |-> "160m", lo |-> 1800,   hi |-> 2000],
       [band |-> "80m",  lo |-> 3500,   hi |-> 3800],
       [band |-> "60m",  lo |-> 5300,   hi |-> 5400],
       [band |-> "40m",  lo |-> 7000,   hi |-> 7200],
       [band |-> "30m",  lo |-> 10100,  hi |-> 10150],
       [band |-> "20m",  lo |-> 14000,  hi |-> 14250],
       [band |-> "17m",  lo |-> 18068,  hi |-> 18168],
       [band |-> "15m",  lo |-> 21000,  hi |-> 21450],
       [band |-> "12m",  lo |-> 24890,  hi |-> 24990],
       [band |-> "10m",  lo |-> 28000,  hi |-> 29690],
       [band |-> "6m",   lo |-> 50000,  hi |-> 52000],
       [band |-> "2m",   lo |-> 140000, hi |-> 150000],
       [band |-> "70cm", lo |-> 430000, hi |-> 440000] >>

\* The range test with both edges left out.
RECURSIVE BandFrom_Strict(_, _)
BandFrom_Strict(i, freq_khz) ==
    IF i > Len(BAND_FREQ) THEN None
    ELSE IF BAND_FREQ[i].lo < freq_khz /\ BAND_FREQ[i].hi > freq_khz
         THEN BAND_FREQ[i].band
         ELSE BandFrom_Strict(i + 1, freq_khz)

RECURSIVE BandFrom(_, _)
BandFrom(i, freq_khz) ==
    IF i > Len(BAND_FREQ) THEN None
    ELSE IF BAND_FREQ[i].lo <= freq_khz /\ BAND_FREQ[i].hi >= freq_khz
         THEN BAND_FREQ[i].band
         ELSE BandFrom(i + 1, freq_khz)

freq_to_band(freq_khz) == BandFrom(1, freq_khz)

\* adif_db raises ValueError exactly when int(d) does.
adif_db_raises(d) == ~IntLiteral(d)

\* The report formatted with %d in place of %02d.
adif_db_Unpadded(d) ==
    LET v == IntOf(d)
    IN  IF v >= 0 THEN <<"+">> \o Decimal(v) ELSE <<"-">> \o Decimal(v * (0 - 1))

adif_db(d) ==
    LET v == IntOf(d)
    IN  IF v >= 0 THEN <<"+">> \o Pad2(v) ELSE <<"-">> \o Pad2(v * (0 - 1))

\* ADIF date and time of a UTC instant (seconds): day number, second of day.
adif_date(dt) == dt \div 86400
adif_time(dt) == dt % 86400

\* adif_field gives '' for a None value (only band can be None); adif_row
\* joins the fields that are left.  The row is kept as field -> value.
adif_field_empty(k, o) == k = "band" /\ o[k] = None

adif_row(o) ==
    [k \in {f \in DOMAIN o : ~adif_field_empty(f, o)} |-> o[k]]

\* The pattern without its $: a longer token passes on its first four.
re_loc_Unanchored(loc) ==
    /\ Len(loc) >= 4
    /\ loc[1] \in Upper /\ loc[2] \in Upper
    /\ loc[3] \in Digits /\ loc[4] \in Digits

\* re_loc: ^[A-Z][A-Z][0-9][0-9]$
re_loc(loc) ==
    /\ Len(loc) = 4
    /\ loc[1] \in Upper /\ loc[2] \in Upper
    /\ loc[3] \in Digits /\ loc[4] \in Digits

(***************************************************************************)
(* Input lines                                                             *)
(***************************************************************************)
\* A line that re_line matches: timestamp, frequency, line type and the
\* payload s_string, kept as the list s_string.split() of its tokens.
\* dtvalid is FALSE for digits that re_line accepts but that are no calendar
\* date or time of day (2019-13-45 25:61:61); dt is then meaningless.
Matched(dtvalid, dt, freq, linetype, toks) ==
    [match |-> TRUE, dtvalid |-> dtvalid, dt |-> dt, s_freq_mhz |-> freq,
     s_linetype |-> linetype, s_string |-> toks]

\* A line that re_line does not match.
Unmatched ==
    [match |-> FALSE, dtvalid |-> FALSE, dt |-> 0, s_freq_mhz |-> [mhz |-> 0, khz |-> 0],
     s_linetype |-> "", s_string |-> <<>>]

JM1LSQ == <<"J", "M", "1", "L", "S", "Q">>
K1A == <<"K", "1", "A">>
K1A_bracketed == <<"<", "K", "1", "A", ">">>
XZ2D == <<"X", "Z", "2", "D">>
QM05 == <<"Q", "M", "0", "5">>
QM5 == <<"Q", "M", "5">>
FN42ab == <<"F", "N", "4", "2", "a", "b">>
K1A_bracketed2 == <<"<", "<", "K", "1", "A", ">", ">">>

F21 == [mhz |-> 21, khz |-> 91]
F14 == [mhz |-> 14, khz |-> 74]

\* 05:25:37, 05:26:29 and 00:30:00 on one day, in seconds of local time.
T_sel == 86400 + 19537
T_rx == 86400 + 19589
T_early == 86400 + 1800

\* The first five tokens of an Rx payload: 052615 -8 -0.0 300 ~
RxHead == << <<"0", "5", "2", "6", "1", "5">>, <<"-", "8">>, <<"-", "0", ".", "0">>,
             <<"3", "0", "0">>, <<"~">> >>

SelLines ==
    { Matched(TRUE, T_sel, F21, "Sel:", <<JM1LSQ, <<"-", "1", "7">>, QM05>>),
      Matched(TRUE, T_sel, F14, "Sel:", <<JM1LSQ, <<"+", "0", "3">>, QM5>>),
      Matched(TRUE, T_sel, F21, "Sel:", <<JM1LSQ, <<"-", "1", "7">> >>),
      Matched(TRUE, T_sel, F21, "Sel:", <<K1A, <<"-", "0", "5">>, FN42ab>>) }

RxLines ==
    { Matched(TRUE, T_rx, F21, "Rx:", RxHead \o <<XZ2D, JM1LSQ, <<"R", "+", "0", "1">> >>),
      Matched(TRUE, T_early, F14, "Rx:", RxHead \o <<XZ2D, K1A_bracketed, <<"R", "-", "8">> >>),
      Matched(TRUE, T_rx, F21, "Rx:", RxHead \o <<XZ2D, JM1LSQ, <<"-", "0", "8">> >>),
      Matched(TRUE, T_rx, F21, "Rx:", RxHead \o <<XZ2D, JM1LSQ, <<"R", "R", "7", "3">> >>),
      Matched(TRUE, T_rx, F21, "Rx:", RxHead \o <<XZ2D, JM1LSQ>>),
      Matched(TRUE, T_rx, F21, "Rx:", RxHead \o <<XZ2D, K1A_bracketed2, <<"R", "-", "8">> >>),
      Matched(TRUE, T_rx, F21, "Rx:",
              RxHead \o <<XZ2D, JM1LSQ, <<"R", "+", "0", "1">>, <<"a", "1">> >>) }

OtherLines ==
    { Matched(TRUE, T_sel, F21, "Tx1:", <<JM1LSQ, XZ2D, <<"-", "1", "7">> >>),
      Matched(TRUE, T_rx, F21, "Log:",
              <<JM1LSQ, QM05, <<"-", "1", "7">>, <<"+", "0", "1">>, <<"1", "5", "m">> >>),
      Matched(FALSE, 0, F21, "Rx:", RxHead \o <<XZ2D, JM1LSQ, <<"R", "+", "0", "1">> >>),
      Unmatched }

Lines == SelLines \cup RxLines \cup OtherLines

\* Command lines: --mycall is required; --tz is the offset of the zone from
\* UTC in seconds; --out and --power are None when not given.  --power 0
\* is a power that was given.
NoPower == <<>>
ArgSets ==
    { [mycall |-> "N0CALL", tz |-> 0, outfile |-> None, power |-> NoPower],
      [mycall |-> "N0CALL", tz |-> 7200, outfile |-> "out.adi", power |-> <<100>>],
      [mycall |-> "N0CALL", tz |-> 0, outfile |-> "out.adi", power |-> <<0>>] }

(***************************************************************************)
(* convert()                                                               *)
(***************************************************************************)
\* No call of freq_to_band on its own is under way.
NoLookup == [freq_khz |-> 0, called |-> FALSE, result |-> None]

Init ==
    /\ pc = "start"
    /\ args \in ArgSets
    /\ inf = <<>>
    /\ ongoing = <<>>
    /\ stdout = <<>>
    /\ outfile = <<>>
    /\ lookup = NoLookup
    /\ first = <<>>

\* A writer that puts the newest item in front of the older ones.
OutfWrite_Front(item) ==
    IF args.outfile # None
    THEN outfile' = <<item>> \o outfile /\ UNCHANGED stdout
    ELSE stdout' = <<item>> \o stdout /\ UNCHANGED outfile

\* outf.write(item): outf is the opened file when --out is given, else sys.stdout.
OutfWrite(item) ==
    IF args.outfile # None
    THEN outfile' = Append(outfile, item) /\ UNCHANGED stdout
    ELSE stdout' = Append(stdout, item) /\ UNCHANGED outfile

\* print(...) writes to sys.stdout.
PrintDiag(item) ==
    stdout' = Append(stdout, item) /\ UNCHANGED outfile

Header == [kind |-> "header", text |-> "wsjtx fox ADIF Export<eoh>"]

\* Open with the header write left out.
Open_NoHeader ==
    /\ pc = "start"
    /\ pc' = "loop"
    /\ UNCHANGED <<args, inf, ongoing, stdout, outfile>>

\* The streams open and the header is written.
Open ==
    /\ pc = "start"
    /\ OutfWrite(Header)
    /\ pc' = "loop"
    /\ UNCHANGED <<args, inf, ongoing>>

\* open() of --out raises: the program ends before anything is written.
OpenFail ==
    /\ pc = "start"
    /\ args.outfile # None
    /\ pc' = "fatal"
    /\ UNCHANGED <<args, inf, ongoing, stdout, outfile>>

\* The loop takes the next line l of the input.
Take(l) ==
    /\ pc = "loop"
    /\ Len(inf) < MaxLines
    /\ inf' = Append(inf, l)

\* An uncaught exception ends the program where it is raised.
Raise ==
    /\ pc' = "error"
    /\ UNCHANGED <<args, ongoing, stdout, outfile>>

\* `continue`, or the end of the loop body with nothing done.
Skip ==
    /\ pc' = "loop"
    /\ UNCHANGED <<args, ongoing, stdout, outfile>>

\* re_line does not match: continue.
NoMatch(l) ==
    /\ Take(l)
    /\ ~l.match
    /\ Skip

\* re_line matches but strptime raises ValueError.
BadTimestamp(l) ==
    /\ Take(l)
    /\ l.match /\ ~l.dtvalid
    /\ Raise

\* A selection that does not replace an entry already there.
SetOngoing_KeepFirst(call, q) ==
    [c \in DOMAIN ongoing \cup {call} |-> IF c \in DOMAIN ongoing THEN ongoing[c] ELSE q]

\* A selection that is dropped when a record for the callsign was written.
SetOngoing_SkipLogged(call, q) ==
    LET out == stdout \o outfile
    IN  IF \E i \in 1..Len(out) : out[i].kind = "row" /\ out[i].o.call = call
        THEN ongoing
        ELSE [c \in DOMAIN ongoing \cup {call} |-> IF c = call THEN q ELSE ongoing[c]]

\* ongoing[call] = {...}
SetOngoing(call, q) ==
    [c \in DOMAIN ongoing \cup {call} |-> IF c = call THEN q ELSE ongoing[c]]

\* The del left out.
DelOngoing_Keep(call) == ongoing

\* del ongoing[call]
DelOngoing(call) ==
    [c \in DOMAIN ongoing \ {call} |-> ongoing[c]]

\* s_linetype == 'Sel:'
SelLine(l) ==
    /\ Take(l)
    /\ l.match /\ l.dtvalid /\ l.s_linetype = "Sel:"
    /\ IF Len(l.s_string) = 3
       THEN /\ ongoing' = SetOngoing(l.s_string[1],
                             [freq |-> l.s_freq_mhz, loc |-> l.s_string[3],
                              s_db_sent |-> l.s_string[2]])
            /\ pc' = "loop"
            /\ UNCHANGED <<args, stdout, outfile>>
       ELSE Raise

\* Stripping that removes two layers of brackets from a doubly wrapped call.
StripCall_Twice(call) ==
    LET strip(c) == IF StartsWith(c, "<") /\ EndsWith(c, ">")
                    THEN SubSeq(c, 2, Len(c) - 1)
                    ELSE c
    IN  strip(strip(call))

\* strip <OH0/OH7LZB> to OH0/OH7LZB
StripCall(call) ==
    IF StartsWith(call, "<") /\ EndsWith(call, ">")
    THEN SubSeq(call, 2, Len(call) - 1)
    ELSE call

\* float(freq) * 1000.0 of a three-decimal token.
FreqKhz(freq) == freq.mhz * 1000 + freq.khz

\* if args.power: (None and 0 are both false)
PowerSet(power) == power # NoPower /\ power[1] # 0

\* The dictionary with the sent and the received report in each other's place.
Record_SwappedReports(call, q, s_db_rx, utc) ==
    [call |-> call,
     mode |-> "FT8",
     rst_sent |-> adif_db(s_db_rx),
     rst_rcvd |-> adif_db(q.s_db_sent),
     qso_date |-> adif_date(utc),
     time_on |-> adif_time(utc),
     qso_date_off |-> adif_date(utc),
     time_off |-> adif_time(utc),
     band |-> freq_to_band(FreqKhz(q.freq)),
     freq |-> q.freq,
     station_callsign |-> args.mycall]
    @@ (IF re_loc(q.loc) THEN [gridsquare |-> q.loc] ELSE <<>>)
    @@ (IF PowerSet(args.power) THEN [tx_pwr |-> Decimal(args.power[1])] ELSE <<>>)

\* The dictionary o built for an answered selection q at the UTC instant utc.
Record(call, q, s_db_rx, utc) ==
    [call |-> call,
     mode |-> "FT8",
     rst_sent |-> adif_db(q.s_db_sent),
     rst_rcvd |-> adif_db(s_db_rx),
     qso_date |-> adif_date(utc),
     time_on |-> adif_time(utc),
     qso_date_off |-> adif_date(utc),
     time_off |-> adif_time(utc),
     band |-> freq_to_band(FreqKhz(q.freq)),
     freq |-> q.freq,
     station_callsign |-> args.mycall]
    @@ (IF re_loc(q.loc) THEN [gridsquare |-> q.loc] ELSE <<>>)
    @@ (IF PowerSet(args.power) THEN [tx_pwr |-> Decimal(args.power[1])] ELSE <<>>)

\* The test of the report's first character left out.
Answered_AnyReport(call, report_rx) == call \in DOMAIN ongoing

\* A condition that also wants the line to be addressed to the operator.
Answered_ForMe(call, report_rx) ==
    /\ call \in DOMAIN ongoing
    /\ StartsWith(report_rx, "R")
    /\ inf'[Len(inf')].s_string[6] = XZ2D

\* The condition under which an Rx line is logged.
Answered(call, report_rx) ==
    call \in DOMAIN ongoing /\ StartsWith(report_rx, "R")

\* len(a) < 8: the diagnostic is printed and the line is skipped.
RxShort_Abort(l) == Raise

RxShort(l) ==
    /\ PrintDiag([kind |-> "print", text |-> "rx: Not enough arguments", l |-> l])
    /\ pc' = "loop"
    /\ UNCHANGED <<args, ongoing>>

\* s_linetype == 'Rx:'
RxLine(l) ==
    /\ Take(l)
    /\ l.match /\ l.dtvalid /\ l.s_linetype = "Rx:"
    /\ LET a == l.s_string IN
       IF Len(a) < 8
       THEN RxShort(l)
       ELSE IF Len(a) # 8
       THEN Raise
       ELSE LET report_rx == a[8]
                s_db_rx == Slice1(report_rx)
                call == StripCall(a[7])
            IN  IF Answered(call, report_rx)
                THEN LET q == ongoing[call] IN
                     IF adif_db_raises(q.s_db_sent) \/ adif_db_raises(s_db_rx)
                     THEN Raise
                     ELSE /\ OutfWrite([kind |-> "row",
                                        o |-> adif_row(Record(call, q, s_db_rx,
                                                              l.dt - args.tz))])
                          /\ ongoing' = DelOngoing(call)
                          /\ pc' = "loop"
                          /\ UNCHANGED args
                ELSE Skip

\* A Log: or Tx1: line taken as the end of the contact it names.
OtherLine_Forget(l) ==
    /\ Take(l)
    /\ l.match /\ l.dtvalid /\ l.s_linetype \notin {"Sel:", "Rx:"}
    /\ ongoing' = [c \in DOMAIN ongoing \ {l.s_string[1]} |-> ongoing[c]]
    /\ pc' = "loop"
    /\ UNCHANGED <<args, stdout, outfile>>

\* Any other line type (Tx1:, Log:, ...) falls through both branches.
OtherLine(l) ==
    /\ Take(l)
    /\ l.match /\ l.dtvalid /\ l.s_linetype \notin {"Sel:", "Rx:"}
    /\ Skip

\* The input is exhausted: the loop and the program end.
EndOfInput ==
    /\ pc = "loop"
    /\ pc' = "done"
    /\ UNCHANGED <<args, inf, ongoing, stdout, outfile>>

Next ==
    \/ Open /\ UNCHANGED <<lookup, first>>
    \/ OpenFail /\ UNCHANGED <<lookup, first>>
    \/ \E l \in Lines : NoMatch(l) /\ UNCHANGED <<lookup, first>>
    \/ \E l \in Lines : BadTimestamp(l) /\ UNCHANGED <<lookup, first>>
    \/ \E l \in Lines : SelLine(l) /\ UNCHANGED <<lookup, first>>
    \/ \E l \in Lines : RxLine(l) /\ UNCHANGED <<lookup, first>>
    \/ \E l \in Lines : OtherLine(l) /\ UNCHANGED <<lookup, first>>
    \/ EndOfInput /\ UNCHANGED <<lookup, first>>

(***************************************************************************)
(* freq_to_band() on its own                                               *)
(***************************************************************************)
\* Frequencies in kHz around every band: one below and one above each
\* edge, the edges, the middle, and two far from every band.
BandTestFreqs ==
    UNION { { BAND_FREQ[i].lo - 1, BAND_FREQ[i].lo, BAND_FREQ[i].lo + 1,
              (BAND_FREQ[i].lo + BAND_FREQ[i].hi) \div 2,
              BAND_FREQ[i].hi - 1, BAND_FREQ[i].hi, BAND_FREQ[i].hi + 1 }
            : i \in 1..Len(BAND_FREQ) }
    \cup {0, 500000}

InitBand ==
    /\ pc = "band"
    /\ args \in {a \in ArgSets : a.outfile = None}
    /\ inf = <<>>
    /\ ongoing = <<>>
    /\ stdout = <<>>
    /\ outfile = <<>>
    /\ lookup \in {[freq_khz |-> f, called |-> FALSE, result |-> None] : f \in BandTestFreqs}
    /\ first = <<>>

\* The call freq_to_band(freq_khz) returns.
BandLookup ==
    /\ pc = "band"
    /\ ~lookup.called
    /\ lookup' = [lookup EXCEPT !.called = TRUE, !.result = freq_to_band(lookup.freq_khz)]
    /\ UNCHANGED <<pc, args, inf, ongoing, stdout, outfile, first>>

SpecBand == InitBand /\ [][BandLookup]_vars

Spec == Init /\ [][Next]_vars

TypeOK ==
    /\ pc \in {"start", "loop", "done", "fatal", "error"}
    /\ args \in ArgSets
    /\ Len(inf) <= MaxLines

(***************************************************************************)
(* Vocabulary of the properties                                            *)
(***************************************************************************)
\* The output stream outf, and the contact records in a stream.
Outf == IF args.outfile # None THEN outfile ELSE stdout
IsRow(item) == item.kind = "row"
Rows(stream) == SelectSeq(stream, IsRow)
RowsFor(stream, call) == SelectSeq(stream, LAMBDA it : IsRow(it) /\ it.o.call = call)

\* The line consumed last, and the shapes of a line.
Last == inf[Len(inf)]
Dated(l) == l.match /\ l.dtvalid
IsSel(l) == Dated(l) /\ l.s_linetype = "Sel:"
IsRx(l) == Dated(l) /\ l.s_linetype = "Rx:"
GoodSel(l) == IsSel(l) /\ Len(l.s_string) = 3
\* An Rx line with exactly the eight tokens the code names: its remote
\* callsign (brackets removed) and its report token.
Rx8(l) == IsRx(l) /\ Len(l.s_string) = 8
RemoteCall(l) == StripCall(l.s_string[7])
Report(l) == l.s_string[8]
RReport(l) == Report(l)[1] = "R"
SelCalls == {l.s_string[1] : l \in {m \in Lines : GoodSel(m)}}

\* This step consumes line l.
Consumes(l) == pc = "loop" /\ inf' = Append(inf, l)
\* This step writes a contact record to the output stream.
WritesRow == Len(Rows(Outf')) = Len(Rows(Outf)) + 1
NoRowWritten == Rows(Outf') = Rows(Outf)
LastRow(stream) == Rows(stream)[Len(Rows(stream))]

\* Index in inf of the last well-formed Sel line for call (0 if none).
LastSelIndex(call) ==
    LET S == {i \in 1..Len(inf) : GoodSel(inf[i]) /\ inf[i].s_string[1] = call}
    IN  IF S = {} THEN 0 ELSE CHOOSE i \in S : \A j \in S : j <= i
SelCount(call) ==
    Cardinality({i \in 1..Len(inf) : GoodSel(inf[i]) /\ inf[i].s_string[1] = call})

(***************************************************************************)
(* C1  An Rx line for a pending callsign whose report begins with 'R',     *)
(* whatever follows the 'R', writes exactly one record and removes the     *)
(* callsign from ongoing.  (Fails: int() of the rest of the report raises.)*)
(***************************************************************************)
C1_AnyRReportLogs ==
    [][\A l \in Lines :
         (Consumes(l) /\ Rx8(l) /\ RemoteCall(l) \in DOMAIN ongoing /\ RReport(l))
         => (WritesRow /\ RemoteCall(l) \notin DOMAIN ongoing')]_vars

(***************************************************************************)
(* C2  An Rx line whose remote callsign is not in ongoing, or whose report *)
(* does not begin with 'R', writes nothing and leaves ongoing as it was;   *)
(* with the eight tokens the code names, the loop goes on to the next line.*)
(***************************************************************************)
C2_InformationalRxIsFrame ==
    [][\A l \in Lines :
         (Consumes(l) /\ IsRx(l) /\ Len(l.s_string) >= 8
            /\ (RemoteCall(l) \notin DOMAIN ongoing \/ ~RReport(l)))
         => /\ ongoing' = ongoing
            /\ stdout' = stdout /\ outfile' = outfile
            /\ (Len(l.s_string) = 8 => pc' = "loop")]_vars

\* A non-R report for a pending callsign was passed over and the R report
\* on the next line completed the contact.
C2_Witness ==
    /\ Len(inf) >= 3
    /\ LET n == Len(inf) IN
       /\ GoodSel(inf[n - 2]) /\ Rx8(inf[n - 1]) /\ Rx8(inf[n])
       /\ RemoteCall(inf[n - 1]) = inf[n - 2].s_string[1]
       /\ RemoteCall(inf[n]) = inf[n - 2].s_string[1]
       /\ ~RReport(inf[n - 1]) /\ RReport(inf[n])
    /\ pc = "loop"
    /\ Len(Rows(Outf)) = 1
    /\ ongoing = <<>>

(***************************************************************************)
(* C3  Last selection wins: a record written for a callsign carries the    *)
(* frequency, band, locator and sent report of the last Sel line for that  *)
(* callsign, and nothing of an earlier one.                                *)
(***************************************************************************)
C3_LastSelectionWins ==
    [][WritesRow =>
         LET o == LastRow(Outf').o
             i == LastSelIndex(o.call)
         IN  /\ i > 0
             /\ o.freq = inf[i].s_freq_mhz
             /\ o.band = freq_to_band(FreqKhz(inf[i].s_freq_mhz))
             /\ o.rst_sent = adif_db(inf[i].s_string[2])
             /\ ("gridsquare" \in DOMAIN o => o.gridsquare = inf[i].s_string[3])]_vars

\* Two Sel lines for one callsign that differ in frequency, locator and
\* report, then its R report: one record, with the second frequency.
C3_Witness ==
    /\ Len(inf) >= 3
    /\ LET n == Len(inf) IN
       /\ GoodSel(inf[n - 2]) /\ GoodSel(inf[n - 1]) /\ Rx8(inf[n]) /\ RReport(inf[n])
       /\ inf[n - 2].s_string[1] = inf[n - 1].s_string[1]
       /\ RemoteCall(inf[n]) = inf[n - 1].s_string[1]
       /\ inf[n - 2].s_freq_mhz # inf[n - 1].s_freq_mhz
       /\ inf[n - 2].s_string[2] # inf[n - 1].s_string[2]
       /\ inf[n - 2].s_string[3] # inf[n - 1].s_string[3]
       /\ Len(Rows(Outf)) = 1
       /\ LastRow(Outf).o.freq = inf[n - 1].s_freq_mhz

(***************************************************************************)
(* C4  Each pending entry yields at most one record: the records for a     *)
(* callsign never outnumber its Sel lines; a record is written only for a  *)
(* callsign that is in ongoing and takes it out; and a callsign enters     *)
(* ongoing only by a Sel line for it.  (So between two records for a       *)
(* callsign there is a Sel line for it.)                                   *)
(***************************************************************************)
C4_OneRecordPerEntry ==
    /\ [](\A c \in SelCalls : Len(RowsFor(Outf, c)) <= SelCount(c))
    /\ [](\A i \in 1..Len(Rows(Outf)) : Rows(Outf)[i].o.call \in SelCalls)
    /\ [][/\ WritesRow =>
               /\ LastRow(Outf').o.call \in DOMAIN ongoing
               /\ LastRow(Outf').o.call \notin DOMAIN ongoing'
          /\ \A c \in (DOMAIN ongoing') \ (DOMAIN ongoing) :
               \E l \in Lines : Consumes(l) /\ GoodSel(l) /\ l.s_string[1] = c]_vars

\* One Sel line, its R report twice: one record, not two.
C4_Witness ==
    /\ Len(inf) >= 3
    /\ LET n == Len(inf) IN
       /\ GoodSel(inf[n - 2]) /\ Rx8(inf[n - 1]) /\ RReport(inf[n - 1])
       /\ inf[n] = inf[n - 1]
       /\ RemoteCall(inf[n]) = inf[n - 2].s_string[1]
       /\ SelCount(RemoteCall(inf[n])) = 1
       /\ Len(RowsFor(Outf, RemoteCall(inf[n]))) = 1
    /\ pc = "loop"

(***************************************************************************)
(* C5  Once the streams are open the header is the first thing in the      *)
(* output stream and occurs in it exactly once; before that, and when      *)
(* opening fails, nothing has been written.                                *)
(***************************************************************************)
C5_HeaderOnceFirst ==
    IF pc \in {"loop", "done", "error"}
    THEN /\ Outf # <<>>
         /\ Outf[1] = Header
         /\ \A i \in 2..Len(Outf) : Outf[i].kind # "header"
    ELSE stdout = <<>> /\ outfile = <<>>

\* The empty input: the run is over and the output is the header alone.
C5_Witness == pc = "done" /\ inf = <<>> /\ Outf = <<Header>>

(***************************************************************************)
(* C6  The output stream holds only the header and contact records, for    *)
(* a file and for standard output.  (Fails: the diagnostic is printed to   *)
(* standard output, which is the output stream when --out is not given.)   *)
(***************************************************************************)
C6_OnlyHeaderAndRows ==
    \A i \in 1..Len(Outf) : Outf[i].kind \in {"header", "row"}

(***************************************************************************)
(* C7  A Sel line whose payload is not three tokens is reported and        *)
(* skipped and the run goes on.  (Fails: the unpacking raises ValueError.) *)
(***************************************************************************)
C7_BadSelIsSkipped ==
    [][\A l \in Lines :
         (Consumes(l) /\ IsSel(l) /\ Len(l.s_string) # 3)
         => (pc' = "loop" /\ ongoing' = ongoing /\ Outf' = Outf)]_vars

(***************************************************************************)
(* C8  An Rx line with eight or more tokens is handled without aborting    *)
(* the run.  (Fails: nine tokens do not unpack into eight names.)          *)
(***************************************************************************)
C8_EightOrMoreAccepted ==
    [][\A l \in Lines :
         (Consumes(l) /\ IsRx(l) /\ Len(l.s_string) >= 8) => pc' = "loop"]_vars

(***************************************************************************)
(* C9  An Rx line with fewer than eight tokens is skipped: no record is    *)
(* written, ongoing and the output file are unchanged, and the loop goes   *)
(* on to the next line.                                                    *)
(***************************************************************************)
C9_ShortRxIsSkipped ==
    [][\A l \in Lines :
         (Consumes(l) /\ IsRx(l) /\ Len(l.s_string) < 8)
         => /\ pc' = "loop"
            /\ ongoing' = ongoing
            /\ NoRowWritten
            /\ outfile' = outfile]_vars

\* A short Rx line naming a pending callsign, then that callsign's R
\* report: the contact is logged as if the short line had not been there.
C9_Witness ==
    /\ Len(inf) >= 3
    /\ LET n == Len(inf) IN
       /\ GoodSel(inf[n - 2])
       /\ IsRx(inf[n - 1]) /\ Len(inf[n - 1].s_string) < 8
       /\ inf[n - 1].s_string[7] = inf[n - 2].s_string[1]
       /\ Rx8(inf[n]) /\ RReport(inf[n])
       /\ RemoteCall(inf[n]) = inf[n - 2].s_string[1]
       /\ Len(RowsFor(Outf, RemoteCall(inf[n]))) = 1
    /\ pc = "loop"

(***************************************************************************)
(* C10  No content of an input line aborts the run: the program is never   *)
(* ended by an uncaught exception.  (Fails: strptime, the two unpackings   *)
(* and int() all raise ValueError on text that re_line accepts.)           *)
(***************************************************************************)
C10_NoLineAborts == pc # "error"

(***************************************************************************)
(* C11  A record has the gridsquare field exactly when the locator stored  *)
(* in the pending entry is two capital letters and two digits and nothing  *)
(* more, and the field then is that locator.                               *)
(***************************************************************************)
Grid4(loc) ==
    /\ Len(loc) = 4
    /\ \A i \in {1, 2} : loc[i] \in Upper
    /\ \A i \in {3, 4} : loc[i] \in Digits

C11_GridsquareIffLocator ==
    [][WritesRow =>
         LET o == LastRow(Outf').o
         IN  /\ o.call \in DOMAIN ongoing
             /\ ("gridsquare" \in DOMAIN o) <=> Grid4(ongoing[o.call].loc)
             /\ ("gridsquare" \in DOMAIN o) => o.gridsquare = ongoing[o.call].loc]_vars

\* Two records in one output: one with the gridsquare of its Sel line, one
\* without, whose Sel line had a locator of six characters.
C11_Witness ==
    /\ Len(inf) = 4
    /\ GoodSel(inf[1]) /\ Grid4(inf[1].s_string[3])
    /\ GoodSel(inf[3]) /\ Len(inf[3].s_string[3]) = 6
    /\ Len(Rows(Outf)) = 2
    /\ "gridsquare" \in DOMAIN Rows(Outf)[1].o
    /\ Rows(Outf)[1].o.gridsquare = inf[1].s_string[3]
    /\ "gridsquare" \notin DOMAIN Rows(Outf)[2].o

(***************************************************************************)
(* C12  A line of any other type than Sel: and Rx: (Tx1:, Log:) changes    *)
(* nothing: ongoing and both streams stay as they are and the loop goes on.*)
(***************************************************************************)
C12_TxAndLogAreFrame ==
    [][\A l \in Lines :
         (Consumes(l) /\ Dated(l) /\ l.s_linetype \notin {"Sel:", "Rx:"})
         => /\ ongoing' = ongoing
            /\ stdout' = stdout /\ outfile' = outfile
            /\ pc' = "loop"]_vars

\* A Tx1: line and a Log: line, both naming a pending callsign, have been
\* consumed and the callsign is pending as before.
C12_Witness ==
    /\ Len(inf) >= 3
    /\ LET n == Len(inf) IN
       /\ GoodSel(inf[n - 2])
       /\ Dated(inf[n - 1]) /\ inf[n - 1].s_linetype = "Tx1:"
       /\ Dated(inf[n]) /\ inf[n].s_linetype = "Log:"
       /\ inf[n - 1].s_string[1] = inf[n - 2].s_string[1]
       /\ inf[n].s_string[1] = inf[n - 2].s_string[1]
       /\ inf[n - 2].s_string[1] \in DOMAIN ongoing
    /\ pc = "loop"
    /\ Rows(Outf) = <<>>

(***************************************************************************)
(* C13  Records are written in input order: a step leaves the output       *)
(* stream as it is or appends one item to it; an appended record belongs   *)
(* to the Rx line consumed in that very step (its callsign, its report,    *)
(* its time).                                                              *)
(***************************************************************************)
C13_RecordsInInputOrder ==
    [][\/ Outf' = Outf
       \/ /\ Len(Outf') = Len(Outf) + 1
          /\ SubSeq(Outf', 1, Len(Outf)) = Outf
          /\ \/ ~IsRow(Outf'[Len(Outf')])
             \/ \E l \in Lines :
                  /\ Consumes(l) /\ Rx8(l)
                  /\ LET o == Outf'[Len(Outf')].o
                     IN  /\ o.call = RemoteCall(l)
                         /\ o.rst_rcvd = adif_db(Slice1(Report(l)))
                         /\ o.time_on = adif_time(l.dt - args.tz)]_vars

\* Two callsigns selected in one order and answering in the other: the
\* records stand in the order of the answers.
C13_Witness ==
    /\ Len(inf) = 4
    /\ GoodSel(inf[1]) /\ GoodSel(inf[2]) /\ Rx8(inf[3]) /\ Rx8(inf[4])
    /\ inf[1].s_string[1] # inf[2].s_string[1]
    /\ RemoteCall(inf[3]) = inf[2].s_string[1]
    /\ RemoteCall(inf[4]) = inf[1].s_string[1]
    /\ Len(Rows(Outf)) = 2
    /\ Rows(Outf)[1].o.call = inf[2].s_string[1]
    /\ Rows(Outf)[2].o.call = inf[1].s_string[1]

(***************************************************************************)
(* C14  End to end: 'Sel: JM1LSQ -17 QM05' and then 'Rx: 052615 -8 -0.0    *)
(* 300 ~ XZ2D JM1LSQ R+01', both at 21.091 MHz, with own callsign N0CALL   *)
(* and time zone UTC, give exactly one record, with call JM1LSQ, rst_sent  *)
(* -17, rst_rcvd +01, gridsquare QM05, station_callsign N0CALL and the     *)
(* band of 21.091 MHz, which is 15m (not 20m).                             *)
(***************************************************************************)
E2E_Sel ==
    Matched(TRUE, T_sel, [mhz |-> 21, khz |-> 91], "Sel:",
            << <<"J", "M", "1", "L", "S", "Q">>, <<"-", "1", "7">>,
               <<"Q", "M", "0", "5">> >>)
E2E_Rx ==
    Matched(TRUE, T_rx, [mhz |-> 21, khz |-> 91], "Rx:",
            << <<"0", "5", "2", "6", "1", "5">>, <<"-", "8">>, <<"-", "0", ".", "0">>,
               <<"3", "0", "0">>, <<"~">>, <<"X", "Z", "2", "D">>,
               <<"J", "M", "1", "L", "S", "Q">>, <<"R", "+", "0", "1">> >>)
E2E_Input ==
    inf = <<E2E_Sel, E2E_Rx>> /\ args.mycall = "N0CALL" /\ args.tz = 0

E2E_Record(band) ==
    /\ pc \in {"loop", "done"}
    /\ Len(Rows(Outf)) = 1
    /\ LET o == Rows(Outf)[1].o
       IN  /\ o.call = <<"J", "M", "1", "L", "S", "Q">>
           /\ o.rst_sent = <<"-", "1", "7">>
           /\ o.rst_rcvd = <<"+", "0", "1">>
           /\ "band" \in DOMAIN o /\ o.band = band
           /\ "gridsquare" \in DOMAIN o /\ o.gridsquare = <<"Q", "M", "0", "5">>
           /\ o.station_callsign = "N0CALL"

\* The claim as amended: the band is 15m.
C14_EndToEnd15m == E2E_Input => E2E_Record("15m")

\* The claim as written: the band is 20m.
C14_EndToEnd20m == E2E_Input => E2E_Record("20m")

\* The run on exactly these two lines has ended.
C14_Witness == E2E_Input /\ pc = "done" /\ Len(Rows(Outf)) = 1

(***************************************************************************)
(* C15  freq_to_band returns the first band, in the order of the table,    *)
(* whose range contains the frequency, both edges included, and None when  *)
(* no range contains it; the ranges are disjoint, so at most one does.     *)
(***************************************************************************)
BandsContaining(f) ==
    {i \in 1..Len(BAND_FREQ) : BAND_FREQ[i].lo <= f /\ f <= BAND_FREQ[i].hi}
TableOrder ==
    <<"160m", "80m", "60m", "40m", "30m", "20m", "17m", "15m", "12m", "10m",
      "6m", "2m", "70cm">>

C15_FirstContainingBand ==
    /\ [i \in 1..Len(BAND_FREQ) |-> BAND_FREQ[i].band] = TableOrder
    /\ lookup.called =>
         LET S == BandsContaining(lookup.freq_khz)
         IN  /\ \A i, j \in 1..Len(BAND_FREQ) :
                    i < j => (BAND_FREQ[i].hi < BAND_FREQ[j].lo
                              \/ BAND_FREQ[j].hi < BAND_FREQ[i].lo)
             /\ Cardinality(S) <= 1
             /\ IF S = {} THEN lookup.result = None
                ELSE lookup.result = TableOrder[CHOOSE i \in S : \A j \in S : i <= j]

\* The call has returned the band for a frequency on the upper edge of the
\* band's range.
C15_Witness ==
    /\ lookup.called
    /\ \E i \in 1..Len(BAND_FREQ) :
         lookup.freq_khz = BAND_FREQ[i].hi /\ lookup.result = BAND_FREQ[i].band

(***************************************************************************)
(* C16  Every record carries tx_pwr, with the configured value, exactly    *)
(* when a transmitter power was given on the command line, whatever whole  *)
(* number it is.  (Fails: `if args.power:` takes --power 0 as not given.)  *)
(***************************************************************************)
C16_PowerIffSupplied ==
    \A i \in 1..Len(Rows(Outf)) :
      LET o == Rows(Outf)[i].o
      IN  /\ ("tx_pwr" \in DOMAIN o) <=> (args.power # NoPower)
          /\ ("tx_pwr" \in DOMAIN o) => o.tx_pwr = Decimal(args.power[1])

(***************************************************************************)
(* C17  A record takes frequency, band, locator and sent report from the   *)
(* pending entry, whatever the frequency of the Rx line, and the received  *)
(* report and the time from the Rx line; its start and its end are the     *)
(* same instant, the Rx line's local time less the zone's offset.          *)
(***************************************************************************)
C17_RecordSources ==
    [][\A l \in Lines :
         (Consumes(l) /\ WritesRow) =>
           LET o == LastRow(Outf').o
           IN  /\ o.call \in DOMAIN ongoing
               /\ LET q == ongoing[o.call]
                  IN  /\ o.freq = q.freq
                      /\ "band" \in DOMAIN o
                      /\ o.band = freq_to_band(q.freq.mhz * 1000 + q.freq.khz)
                      /\ ("gridsquare" \in DOMAIN o) => o.gridsquare = q.loc
                      /\ o.rst_sent = adif_db(q.s_db_sent)
               /\ o.rst_rcvd = adif_db(Tail(l.s_string[8]))
               /\ o.qso_date = o.qso_date_off
               /\ o.time_on = o.time_off
               /\ o.time_on \in 0..86399
               /\ o.qso_date * 86400 + o.time_on = l.dt - args.tz]_vars

\* A record for a callsign selected on one frequency and answering on
\* another, in a zone east of UTC where the answer's UTC date is the day
\* before its local date.
C17_Witness ==
    /\ Len(inf) >= 2
    /\ args.tz > 0
    /\ LET n == Len(inf) IN
       /\ GoodSel(inf[n - 1]) /\ Rx8(inf[n]) /\ RReport(inf[n])
       /\ RemoteCall(inf[n]) = inf[n - 1].s_string[1]
       /\ inf[n].s_freq_mhz # inf[n - 1].s_freq_mhz
       /\ Len(Rows(Outf)) = 1
       /\ LastRow(Outf).o.freq = inf[n - 1].s_freq_mhz
       /\ LastRow(Outf).o.qso_date < inf[n].dt \div 86400

(***************************************************************************)
(* C18  On an Rx line the remote callsign <X> is looked up in the pending  *)
(* table, and written in the call field, as X: one leading "<" and one     *)
(* trailing ">" are removed, no more; a bare X is looked up as it stands.  *)
(***************************************************************************)
Unwrapped(c) ==
    IF Len(c) >= 2 /\ Head(c) = "<" /\ c[Len(c)] = ">"
    THEN [i \in 1..(Len(c) - 2) |-> c[i + 1]]
    ELSE c

C18_OneBracketPairStripped ==
    [][\A l \in Lines :
         (Consumes(l) /\ Rx8(l)) =>
           LET X == Unwrapped(l.s_string[7])
           IN  /\ WritesRow => /\ X \in DOMAIN ongoing
                               /\ LastRow(Outf').o.call = X
               /\ (X \in DOMAIN ongoing /\ RReport(l)) =>
                     (WritesRow \/ pc' = "error")
               /\ X \notin DOMAIN ongoing => NoRowWritten]_vars

\* A doubly wrapped <<X>> found nothing although X was pending, then <X>
\* found X and the record's call field is X.
C18_Witness ==
    /\ Len(inf) >= 3
    /\ LET n == Len(inf) IN
       /\ GoodSel(inf[n - 2]) /\ Rx8(inf[n - 1]) /\ Rx8(inf[n])
       /\ inf[n - 1].s_string[7] = <<"<", "<">> \o inf[n - 2].s_string[1] \o <<">", ">">>
       /\ RReport(inf[n - 1])
       /\ inf[n].s_string[7] = <<"<">> \o inf[n - 2].s_string[1] \o <<">">>
       /\ Len(Rows(Outf)) = 1
       /\ LastRow(Outf).o.call = inf[n - 2].s_string[1]

(***************************************************************************)
(* C19  Nothing remembers that a callsign was logged: a well-formed Sel    *)
(* line makes its callsign pending whether or not records for it exist,    *)
(* and an R report for a pending callsign adds one more record for it      *)
(* however many there are (unless a report conversion raises).  So the     *)
(* records for a callsign can be as many as its Sel lines.                 *)
(***************************************************************************)
C19_NoDeduplication ==
    [][\A l \in Lines :
         /\ (Consumes(l) /\ GoodSel(l)) =>
               /\ l.s_string[1] \in DOMAIN ongoing'
               /\ pc' = "loop"
         /\ (Consumes(l) /\ Rx8(l) /\ RReport(l)
               /\ Unwrapped(l.s_string[7]) \in DOMAIN ongoing /\ pc' # "error") =>
               LET X == Unwrapped(l.s_string[7])
               IN  Len(RowsFor(Outf', X)) = Len(RowsFor(Outf, X)) + 1]_vars

\* Two Sel-then-confirm cycles for one callsign, two records for it.
C19_Witness ==
    /\ Len(inf) = 4
    /\ GoodSel(inf[1]) /\ Rx8(inf[2]) /\ GoodSel(inf[3]) /\ Rx8(inf[4])
    /\ inf[3].s_string[1] = inf[1].s_string[1]
    /\ Unwrapped(inf[2].s_string[7]) = inf[1].s_string[1]
    /\ Unwrapped(inf[4].s_string[7]) = inf[1].s_string[1]
    /\ SelCount(inf[1].s_string[1]) = 2
    /\ Len(RowsFor(Outf, inf[1].s_string[1])) = 2

(***************************************************************************)
(* Two runs of the program, one after the other                            *)
(***************************************************************************)
\* The input of the first run: well-formed Sel lines and eight-token Rx
\* lines, all addressed to XZ2D.
PairLines ==
    {l \in Lines : GoodSel(l) /\ l.s_freq_mhz = F21}
      \cup {l \in Lines : Rx8(l) /\ l.s_string[7] # K1A_bracketed2}

\* How the second run differs from the first: in the own-callsign token
\* of its Rx lines, or in --mycall.
PairModes ==
    { [my |-> K1A, mycall |-> args.mycall],
      [my |-> JM1LSQ, mycall |-> args.mycall],
      [my |-> XZ2D, mycall |-> "W1AW"] }

\* Line l with the sixth token of an Rx line (my) replaced.
Variant(l, m) ==
    IF l.match /\ l.s_linetype = "Rx:" /\ Len(l.s_string) >= 6
    THEN [l EXCEPT !.s_string[6] = m.my]
    ELSE l

\* The lines the loop can read next: any in the first run, in the second
\* the variant of the line the first run read at this place.
PairInput ==
    IF first = <<>> THEN PairLines
    ELSE IF Len(inf) < Len(first.inf)
    THEN {Variant(first.inf[Len(inf) + 1], first.mode)}
    ELSE {}

\* The program is started again on the variant of what the first run read
\* so far; what the first run read, wrote and held is kept for comparison.
Restart ==
    /\ first = <<>>
    /\ pc \in {"loop", "done", "error"}
    /\ \E m \in PairModes :
         /\ first' = [args |-> args, inf |-> inf, ongoing |-> ongoing,
                      rows |-> Rows(Outf), pc |-> pc, mode |-> m]
         /\ args' = [args EXCEPT !.mycall = m.mycall]
    /\ pc' = "start"
    /\ inf' = <<>>
    /\ ongoing' = <<>>
    /\ stdout' = <<>>
    /\ outfile' = <<>>
    /\ UNCHANGED lookup

PairNext ==
    \/ Open /\ UNCHANGED <<lookup, first>>
    \/ \E l \in PairInput : SelLine(l) /\ UNCHANGED <<lookup, first>>
    \/ \E l \in PairInput : RxLine(l) /\ UNCHANGED <<lookup, first>>
    \/ /\ EndOfInput
       /\ first # <<>> => (Len(inf) = Len(first.inf) /\ first.pc = "done")
       /\ UNCHANGED <<lookup, first>>
    \/ Restart

SpecPair == Init /\ [][PairNext]_vars

\* The second run has read the variant of everything the first run read.
Replayed == first # <<>> /\ pc # "start" /\ Len(inf) = Len(first.inf)
\* A record without its station_callsign field.
LessStation(o) == [k \in (DOMAIN o) \ {"station_callsign"} |-> o[k]]

(***************************************************************************)
(* C20  Of two runs that differ only in the own-callsign token of the Rx   *)
(* lines, or only in --mycall, the second writes a record exactly where    *)
(* the first did, ends as the first did, and holds the same pending table  *)
(* after every line; the records are the same but for station_callsign,    *)
(* which is the --mycall of each run.                                      *)
(***************************************************************************)
C20_OwnCallsignIgnored ==
    /\ (first # <<>> /\ pc = "error") =>
          (Len(inf) = Len(first.inf) /\ first.pc = "error")
    /\ Replayed =>
          /\ pc = first.pc \/ (first.pc = "done" /\ pc = "loop")
          /\ ongoing = first.ongoing
          /\ Len(Rows(Outf)) = Len(first.rows)
          /\ \A i \in 1..Len(first.rows) :
                /\ LessStation(Rows(Outf)[i].o) = LessStation(first.rows[i].o)
                /\ first.rows[i].o.station_callsign = first.args.mycall
                /\ Rows(Outf)[i].o.station_callsign = args.mycall

\* The second run is over, its Rx lines addressed to someone else than the
\* first run's; both wrote a record and both still hold a pending callsign.
C20_Witness ==
    /\ Replayed
    /\ pc = "done"
    /\ first.mode.my # XZ2D
    /\ \E i \in 1..Len(inf) :
         /\ Rx8(inf[i]) /\ RReport(inf[i])
         /\ inf[i].s_string[6] = first.mode.my
         /\ first.inf[i].s_string[6] = XZ2D
    /\ Len(Rows(Outf)) >= 1
    /\ Len(first.rows) >= 1
    /\ DOMAIN ongoing # {}

====
